---- MODULE Spec2Model ----
(***************************************************************************)
(* The recursive-backtracker maze generator of src/src/App.js: the grid,   *)
(* the simulation state, updateState (one step of the generator),          *)
(* renderState (the draw commands of one frame) and p.draw (the p5 frame   *)
(* callback that drives both).                                             *)
(*                                                                         *)
(* Cells are objects shared by reference between state.grid,               *)
(* state.activeCell and state.cellStack.  A reference to a cell is         *)
(* modelled as the cell's JavaScript index in state.grid (0-based), so a   *)
(* mutation made through one reference is seen through all of them.        *)
(*                                                                         *)
(* App.js holds the sketch twice (lines 1-169, and again with doc comments *)
(* at lines 171-411); the two agree on everything modelled here, and line  *)
(* numbers in the comments below are those of the first copy.              *)
(***************************************************************************)
EXTENDS Integers, Sequences, FiniteSets, TLC

\* ------------------------------------------------------------ bounds
\* Grid sizes explored: 1..MaxRows rows by 1..MaxCols columns.
MaxRows == 3
MaxCols == 3
\* How many times updateState may be called on an already completed state.
MaxIdleCalls == 2
\* A cap on updateState calls; a run of the program needs 2*rows*cols - 1.
MaxCalls == 2 * MaxRows * MaxCols + MaxIdleCalls

\* ------------------------------------------------------------ constants
WIDTH == 600
HEIGHT == 600

\* What p.random returns for an empty array (arr[0] of []): JS undefined.
undefined == -1

VARIABLES
  ROWS,      \* the ROWS constant of the sketch
  COLS,      \* the COLS constant of the sketch
  state,     \* let state = createState(ROWS, COLS)
  looping,   \* whether p5 still calls p.draw (cleared by p.noLoop())
  commands,  \* the draw commands renderState emitted in the last frame
  hist       \* history: counts of calls, pushes, pops and renders so far

vars == <<ROWS, COLS, state, looping, commands, hist>>

CELL_HEIGHT == HEIGHT \div ROWS
CELL_WIDTH == WIDTH \div COLS

\* ------------------------------------------------------------ ramda helpers
\* range(a, b): the integers a, a+1, ..., b-1
range(a, b) == [i \in 1..(b - a) |-> a + i - 1]

\* xprod(as, bs): every pair <<a, b>>, the first list varying slowest
xprod(as, bs) ==
  [i \in 1..(Len(as) * Len(bs)) |->
     <<as[((i - 1) \div Len(bs)) + 1], bs[((i - 1) % Len(bs)) + 1]>>]

\* reverse of a list
reverse(arr) == [i \in 1..Len(arr) |-> arr[Len(arr) + 1 - i]]

\* JavaScript arr[k], 0-based
at(arr, k) == arr[k + 1]

\* ------------------------------------------------------------ grid and state
createCell(x, y) ==
  [x |-> x, y |-> y,
   walls |-> [k \in {"top", "right", "bottom", "left"} |-> TRUE],
   processed |-> FALSE]

cellOfPair(arr) == createCell(arr[1], arr[2])

\* a variant of createGrid that forgets map(reverse): cells get (row, col)
createGrid_unreversed(rowCount, colCount) ==
  LET pairs == xprod(range(0, rowCount), range(0, colCount))
  IN [i \in 1..Len(pairs) |-> cellOfPair(pairs[i])]

createGrid(rowCount, colCount) ==
  LET pairs == xprod(range(0, rowCount), range(0, colCount))
      reversed == [i \in 1..Len(pairs) |-> reverse(pairs[i])]
  IN [i \in 1..Len(reversed) |-> cellOfPair(reversed[i])]

createState(rows, cols) ==
  [grid |-> createGrid(rows, cols),
   activeCell |-> 0,
   cellStack |-> <<>>,
   mazeComplete |-> FALSE]

\* ------------------------------------------------------------ updateState
\* the four offsets of getValidNeighors, as p5 vectors
neighborVecs ==
  <<[x |-> -1, y |-> 0], [x |-> 0, y |-> -1], [x |-> 1, y |-> 0], [x |-> 0, y |-> 1]>>

isInBounds(v) == v.x >= 0 /\ v.x < COLS /\ v.y >= 0 /\ v.y < ROWS

\* getCell returns the object state.grid[y * COLS + x]: here its index
getCell(v) == v.y * COLS + v.x

isNotProcessed(g, ref) == ~at(g, ref).processed

\* a variant of getValidNeighors that forgets the processed filter
getValidNeighors_unfiltered(st, cell) ==
  LET c == at(st.grid, cell)
      moved == [i \in 1..Len(neighborVecs) |->
                  [x |-> neighborVecs[i].x + c.x, y |-> neighborVecs[i].y + c.y]]
      inBounds == SelectSeq(moved, isInBounds)
  IN [i \in 1..Len(inBounds) |-> getCell(inBounds[i])]

\* the unprocessed in-bounds 4-neighbours of cell, in the order of neighborVecs
getValidNeighors(st, cell) ==
  LET c == at(st.grid, cell)
      moved == [i \in 1..Len(neighborVecs) |->
                  [x |-> neighborVecs[i].x + c.x, y |-> neighborVecs[i].y + c.y]]
      inBounds == SelectSeq(moved, isInBounds)
      cells == [i \in 1..Len(inBounds) |-> getCell(inBounds[i])]
      notProcessed(ref) == isNotProcessed(st.grid, ref)
  IN SelectSeq(cells, notProcessed)

\* cell.walls.<key> = false; a key the walls object lacks is added to it
clearWall(g, ref, key) ==
  LET w == at(g, ref).walls
  IN [g EXCEPT ![ref + 1].walls =
        [k \in (DOMAIN w) \cup {key} |-> IF k = key THEN FALSE ELSE w[k]]]

\* a variant of removeWallBetween that lacks the yDiff === -1 case
removeWallBetween_noUp(g, cell, neighbor) ==
  LET xDiff == at(g, neighbor).x - at(g, cell).x
      yDiff == at(g, neighbor).y - at(g, cell).y
      g1 == IF xDiff = 1
              THEN clearWall(clearWall(g, cell, "right"), neighbor, "left") ELSE g
      g2 == IF xDiff = -1
              THEN clearWall(clearWall(g1, cell, "left"), neighbor, "right") ELSE g1
      g3 == IF yDiff = 1
              THEN clearWall(clearWall(g2, cell, "bottom"), neighbor, "top") ELSE g2
  IN g3

\* a variant of removeWallBetween that mixes up left and right
removeWallBetween_swapped(g, cell, neighbor) ==
  LET xDiff == at(g, neighbor).x - at(g, cell).x
      yDiff == at(g, neighbor).y - at(g, cell).y
      g1 == IF xDiff = 1
              THEN clearWall(clearWall(g, cell, "left"), neighbor, "right") ELSE g
      g2 == IF xDiff = -1
              THEN clearWall(clearWall(g1, cell, "right"), neighbor, "left") ELSE g1
      g3 == IF yDiff = 1
              THEN clearWall(clearWall(g2, cell, "bottom"), neighbor, "top") ELSE g2
      g4 == IF yDiff = -1
              THEN clearWall(clearWall(g3, cell, "top"), neighbor, "bototm") ELSE g3
  IN g4

removeWallBetween(g, cell, neighbor) ==
  LET xDiff == at(g, neighbor).x - at(g, cell).x
      yDiff == at(g, neighbor).y - at(g, cell).y
      g1 == IF xDiff = 1
              THEN clearWall(clearWall(g, cell, "right"), neighbor, "left") ELSE g
      g2 == IF xDiff = -1
              THEN clearWall(clearWall(g1, cell, "left"), neighbor, "right") ELSE g1
      g3 == IF yDiff = 1
              THEN clearWall(clearWall(g2, cell, "bottom"), neighbor, "top") ELSE g2
      g4 == IF yDiff = -1
              THEN clearWall(clearWall(g3, cell, "top"), neighbor, "bototm") ELSE g3
  IN g4

\* p.random(arr): arr[floor(rand * arr.length)], where u is that index
random(arr, u) == IF u < Len(arr) THEN at(arr, u) ELSE undefined

\* a variant of setProcessed that flips the flag
setProcessed_toggle(g, ref) == [g EXCEPT ![ref + 1].processed = ~@]

\* cell.processed = true
setProcessed(g, ref) == [g EXCEPT ![ref + 1].processed = TRUE]

\* a variant of pop that returns the last element and leaves it on the stack
pop_peek(stack) == [value |-> stack[Len(stack)], rest |-> stack]

\* Array.prototype.pop: the last element, and the array without it
pop(stack) == [value |-> stack[Len(stack)], rest |-> SubSeq(stack, 1, Len(stack) - 1)]

\* a variant of the advance branch that forgets to mark the cell processed
stepAdvance_unmarked(st, randomNeighbor) ==
  LET g1 == removeWallBetween(st.grid, st.activeCell, randomNeighbor)
  IN [st EXCEPT !.grid = g1,
                !.cellStack = Append(st.cellStack, st.activeCell),
                !.activeCell = randomNeighbor]

\* a variant of the advance branch that moves on before marking, so that
\* the chosen neighbour is marked processed instead of the cell left
stepAdvance_marksNeighbor(st, randomNeighbor) ==
  LET g1 == removeWallBetween(st.grid, st.activeCell, randomNeighbor)
      g2 == setProcessed(g1, randomNeighbor)
  IN [st EXCEPT !.grid = g2,
                !.cellStack = Append(st.cellStack, st.activeCell),
                !.activeCell = randomNeighbor]

\* the branch taken when a neighbour was picked (lines 123-126)
stepAdvance(st, randomNeighbor) ==
  LET g1 == removeWallBetween(st.grid, st.activeCell, randomNeighbor)
      g2 == setProcessed(g1, st.activeCell)
  IN [st EXCEPT !.grid = g2,
                !.cellStack = Append(st.cellStack, st.activeCell),
                !.activeCell = randomNeighbor]

\* a variant of the backtrack branch that forgets to mark the cell processed
stepBacktrack_unmarked(st) ==
  LET p == pop(st.cellStack)
  IN [st EXCEPT !.activeCell = p.value, !.cellStack = p.rest]

\* the branch taken at a dead end with a non-empty stack (lines 129-130)
stepBacktrack(st) ==
  LET g1 == setProcessed(st.grid, st.activeCell)
      p == pop(st.cellStack)
  IN [st EXCEPT !.grid = g1, !.activeCell = p.value, !.cellStack = p.rest]

\* a variant of the last branch that flips the flag instead of setting it
stepComplete_toggle(st) == [st EXCEPT !.mazeComplete = ~st.mazeComplete]

\* the branch taken at a dead end with an empty stack (line 132)
stepComplete(st) == [st EXCEPT !.mazeComplete = TRUE]

\* updateState(state), with u the index p.random draws
updateState(st, u) ==
  LET randomNeighbor == random(getValidNeighors(st, st.activeCell), u)
  IN IF randomNeighbor # undefined
       THEN stepAdvance(st, randomNeighbor)
       ELSE IF Len(st.cellStack) > 0
              THEN stepBacktrack(st)
              ELSE stepComplete(st)

\* the indices p.random can draw for the active cell's candidates
Draws(st) ==
  LET n == Len(getValidNeighors(st, st.activeCell))
  IN 0..((IF n > 0 THEN n ELSE 1) - 1)

\* ------------------------------------------------------------ renderState
renderLine(x1, y1, x2, y2) ==
  [op |-> "line", a |-> x1 * CELL_WIDTH, b |-> y1 * CELL_HEIGHT,
   c |-> x2 * CELL_WIDTH, d |-> y2 * CELL_HEIGHT, color |-> <<255>>]

renderRect(x, y, color) ==
  [op |-> "rect", a |-> x * CELL_WIDTH, b |-> y * CELL_HEIGHT,
   c |-> CELL_WIDTH, d |-> CELL_HEIGHT, color |-> color]

\* a variant of renderCell that never draws the left wall
renderCell_noLeft(cell) ==
  LET x == cell.x
      y == cell.y
  IN <<renderRect(x, y, IF cell.processed THEN <<101>> ELSE <<51>>)>>
     \o (IF cell.walls["top"] THEN <<renderLine(x, y, x + 1, y)>> ELSE <<>>)
     \o (IF cell.walls["right"] THEN <<renderLine(x + 1, y, x + 1, y + 1)>> ELSE <<>>)
     \o (IF cell.walls["bottom"] THEN <<renderLine(x, y + 1, x + 1, y + 1)>> ELSE <<>>)

renderCell(cell) ==
  LET x == cell.x
      y == cell.y
  IN <<renderRect(x, y, IF cell.processed THEN <<101>> ELSE <<51>>)>>
     \o (IF cell.walls["top"] THEN <<renderLine(x, y, x + 1, y)>> ELSE <<>>)
     \o (IF cell.walls["right"] THEN <<renderLine(x + 1, y, x + 1, y + 1)>> ELSE <<>>)
     \o (IF cell.walls["bottom"] THEN <<renderLine(x, y + 1, x + 1, y + 1)>> ELSE <<>>)
     \o (IF cell.walls["left"] THEN <<renderLine(x, y, x, y + 1)>> ELSE <<>>)

renderCellStackItem(cell) == renderRect(cell.x, cell.y, <<150, 0, 150>>)

renderCellStack(cells) == [i \in 1..Len(cells) |-> renderCellStackItem(cells[i])]

renderActiveCell(cell) == <<renderRect(cell.x, cell.y, <<0, 255, 0>>)>>

\* forEach(renderCell) over the first k cells of the grid, in order
RECURSIVE renderCells(_, _)
renderCells(g, k) ==
  IF k = 0 THEN <<>> ELSE renderCells(g, k - 1) \o renderCell(g[k])

renderGrid(g) == renderCells(g, Len(g))

\* a variant of renderState that highlights the stack before the active cell
renderState_stackFirst(st) ==
  LET cells == [i \in 1..Len(st.cellStack) |-> at(st.grid, st.cellStack[i])]
  IN renderGrid(st.grid)
     \o renderCellStack(cells)
     \o renderActiveCell(at(st.grid, st.activeCell))

renderState(st) ==
  LET cells == [i \in 1..Len(st.cellStack) |-> at(st.grid, st.cellStack[i])]
  IN renderGrid(st.grid)
     \o renderActiveCell(at(st.grid, st.activeCell))
     \o renderCellStack(cells)

\* ------------------------------------------------------------ p.draw
\* a variant of the frame callback that never stops the loop
draw_noStop(st, lp, u) ==
  IF st.mazeComplete
    THEN [state |-> st, looping |-> lp, stepped |-> FALSE]
    ELSE [state |-> updateState(st, u), looping |-> lp, stepped |-> TRUE]

\* the if/else of p.draw: stop the loop once complete, otherwise one step
draw(st, lp, u) ==
  IF st.mazeComplete
    THEN [state |-> st, looping |-> FALSE, stepped |-> FALSE]
    ELSE [state |-> updateState(st, u), looping |-> lp, stepped |-> TRUE]

\* ------------------------------------------------------------ history
\* the history after a call of updateState took the state from st to st2:
\* a longer stack is a push of its new top (line 125), a shorter one a pop of
\* the old top, made when the old active cell was left at a dead end (line 130)
counted(h, st, st2) ==
  LET push == Len(st2.cellStack) > Len(st.cellStack)
      popd == Len(st2.cellStack) < Len(st.cellStack)
  IN [h EXCEPT !.calls = @ + 1,
               !.idle = @ + (IF st.mazeComplete THEN 1 ELSE 0),
               !.pushes = @ + (IF push THEN 1 ELSE 0),
               !.pops = @ + (IF popd THEN 1 ELSE 0),
               !.pushed = IF push
                            THEN [@ EXCEPT ![st2.cellStack[Len(st2.cellStack)]] = @ + 1]
                            ELSE @,
               !.popped = IF popd THEN @ \cup {st.cellStack[Len(st.cellStack)]} ELSE @,
               !.left = IF popd THEN @ \cup {st.activeCell} ELSE @]

\* ------------------------------------------------------------ specification
Init ==
  /\ ROWS \in 1..MaxRows
  /\ COLS \in 1..MaxCols
  /\ state = createState(ROWS, COLS)
  /\ looping = TRUE
  /\ commands = <<>>
  /\ hist = [calls |-> 0, idle |-> 0, pushes |-> 0, pops |-> 0, renders |-> 0,
             pushed |-> [c \in 0..(ROWS * COLS - 1) |-> 0],
             popped |-> {}, left |-> {}]

\* one call of updateState(state), by any caller
UpdateState ==
  /\ hist.calls < MaxCalls
  /\ state.mazeComplete => hist.idle < MaxIdleCalls
  /\ \E u \in Draws(state) :
       /\ state' = updateState(state, u)
       /\ hist' = counted(hist, state, state')
  /\ UNCHANGED <<ROWS, COLS, looping, commands>>

\* one frame: p5 calls p.draw while the loop runs
Draw ==
  /\ looping
  /\ hist.renders <= MaxCalls
  /\ \E u \in Draws(state) :
       \E f \in {draw(state, looping, u)} :
          /\ state' = f.state
          /\ looping' = f.looping
          /\ hist' = [(IF f.stepped THEN counted(hist, state, state') ELSE hist)
                        EXCEPT !.renders = @ + 1]
          /\ commands' = renderState(state')
  /\ UNCHANGED <<ROWS, COLS>>

Next == UpdateState

Spec == Init /\ [][Next]_vars

\* updateState is called again and again
FairSpec == Spec /\ WF_vars(UpdateState)

DriverNext == Draw

\* the program as p5 runs it: only p.draw calls updateState
DriverSpec == Init /\ [][DriverNext]_vars

\* p5 keeps calling p.draw at the frame rate until noLoop
FairDriverSpec == DriverSpec /\ WF_vars(Draw)

\* ------------------------------------------------------------ vocabulary of the claims
\* references to the cells of the grid
Refs == 0..(Len(state.grid) - 1)

\* the cell a reference denotes
cellAt(ref) == at(state.grid, ref)

\* two cells are 4-adjacent
Adjacent(a, b) ==
  LET dx == cellAt(b).x - cellAt(a).x
      dy == cellAt(b).y - cellAt(a).y
  IN (dx = 0 /\ dy \in {-1, 1}) \/ (dy = 0 /\ dx \in {-1, 1})

\* the wall of a that faces its neighbour b
facing(a, b) ==
  IF cellAt(b).x = cellAt(a).x + 1 THEN "right"
  ELSE IF cellAt(b).x = cellAt(a).x - 1 THEN "left"
  ELSE IF cellAt(b).y = cellAt(a).y + 1 THEN "bottom"
  ELSE "top"

\* a's wall flag facing b is cleared
Cleared(a, b) == ~cellAt(a).walls[facing(a, b)]

\* the passages: pairs of adjacent cells with no wall flag set between them
Passages ==
  {e \in SUBSET Refs :
     \E a, b \in Refs : e = {a, b} /\ Adjacent(a, b) /\ Cleared(a, b) /\ Cleared(b, a)}

\* the cells reachable from a set of cells through passages
RECURSIVE ReachFrom(_)
ReachFrom(S) ==
  LET T == S \cup {b \in Refs : \E a \in S : {a, b} \in Passages}
  IN IF T = S THEN S ELSE ReachFrom(T)

Components == {ReachFrom({a}) : a \in Refs}

AllProcessed == \A a \in Refs : cellAt(a).processed

StackSet == {state.cellStack[i] : i \in 1..Len(state.cellStack)}

\* ------------------------------------------------------------ claims

\* C1: wall symmetry: for every pair of 4-adjacent cells A and B, A's wall
\* flag facing B is cleared if and only if B's wall flag facing A is cleared
\* (so an advance with dy = -1 clears the neighbour's bottom wall too).
C1_WallSymmetry ==
  \A a, b \in Refs : Adjacent(a, b) => (Cleared(a, b) <=> Cleared(b, a))

\* C2: perfect maze: once complete, the passage graph on all cells is
\* connected and acyclic, a spanning tree with exactly rows*cols - 1 edges.
C2_PerfectMaze ==
  state.mazeComplete =>
    /\ Cardinality(Components) = 1
    /\ Cardinality(Passages) = Cardinality(Refs) - Cardinality(Components)
    /\ Cardinality(Passages) = ROWS * COLS - 1

\* C3: the active cell is never an element of the stack, and the stack
\* holds no cell twice.
C3_StackActiveDisjoint ==
  /\ state.activeCell \notin StackSet
  /\ \A i, j \in 1..Len(state.cellStack) :
       state.cellStack[i] = state.cellStack[j] => i = j

\* C3 witness: a cell was pushed again after a pop and the stack is deep
C3_Witness ==
  /\ hist.pops > 0
  /\ hist.pushes > hist.pops + 2

\* C4: completion implies full coverage: whenever complete is true, every
\* cell is visited and the stack is empty; complete is set only by a step
\* that found no unvisited neighbour and an empty stack, and that step leaves
\* the active cell visited.
C4_CompleteCoversAll ==
  /\ [](state.mazeComplete => (AllProcessed /\ state.cellStack = <<>>))
  /\ [][(~state.mazeComplete /\ state'.mazeComplete) =>
          /\ getValidNeighors(state, state.activeCell) = <<>>
          /\ state.cellStack = <<>>
          /\ at(state'.grid, state'.activeCell).processed]_vars

\* C5: termination: for every grid size and every sequence of neighbour
\* picks, repeated calls of updateState eventually make complete true.
C5_Termination == <>state.mazeComplete

\* C5 witness: a run with advances and backtracks has completed
C5_Witness ==
  /\ state.mazeComplete
  /\ ROWS * COLS >= 4
  /\ hist.pops = ROWS * COLS - 1

\* C6 as stated: pushes plus pops never exceed rows*cols.
C6_TrafficAtMostCells == hist.pushes + hist.pops <= ROWS * COLS

\* C6 as amended: pushes plus pops never exceed 2*(rows*cols - 1).
C6_TrafficAtMostTwicePerCell == hist.pushes + hist.pops <= 2 * (ROWS * COLS - 1)

\* C6 witness: a completed run whose stack traffic reaches the bound
C6_Witness ==
  /\ state.mazeComplete
  /\ ROWS * COLS >= 4
  /\ hist.pushes + hist.pops = 2 * (ROWS * COLS - 1)

\* C7: termination monotonicity: once complete is true it stays true, and
\* a call of updateState made while complete is true changes no visited
\* flag, no wall, not the active cell and not the stack.
C7_CompleteIsStable ==
  [][state.mazeComplete =>
       /\ state'.mazeComplete
       /\ state'.grid = state.grid
       /\ state'.activeCell = state.activeCell
       /\ state'.cellStack = state.cellStack]_vars

\* C7 witness: updateState has been called on a completed state
C7_Witness ==
  /\ state.mazeComplete
  /\ hist.idle > 0
  /\ ROWS * COLS >= 4

\* the number of wall flags that are cleared, over all cells
ClearedFlags ==
  Cardinality({p \in Refs \X {"top", "right", "bottom", "left"} :
                 ~cellAt(p[1]).walls[p[2]]})

\* C8: on the 2x2 grid, for every sequence of picks: the first step marks
\* (0,0) visited, pushes it, makes (1,0) or (0,1) active and opens exactly
\* one passage; after exactly 4 calls all four cells are visited; complete
\* is true after at most 7 calls and stays true.
C8_TwoByTwoScenario ==
  /\ []((ROWS = 2 /\ COLS = 2) =>
         /\ hist.calls = 1 =>
              /\ cellAt(0).processed
              /\ cellAt(0).x = 0 /\ cellAt(0).y = 0
              /\ state.cellStack = <<0>>
              /\ <<cellAt(state.activeCell).x, cellAt(state.activeCell).y>>
                   \in {<<1, 0>>, <<0, 1>>}
              /\ Cardinality(Passages) = 1
              /\ ClearedFlags = 2
         /\ hist.calls < 4 => ~AllProcessed
         /\ hist.calls >= 4 => AllProcessed
         /\ hist.calls >= 7 => state.mazeComplete)
  /\ [][(ROWS = 2 /\ COLS = 2 /\ state.mazeComplete) => state'.mazeComplete]_vars

\* C8 witness: the 2x2 run completed on its 7th call and was called once more
C8_Witness ==
  /\ ROWS = 2 /\ COLS = 2
  /\ state.mazeComplete
  /\ hist.calls = 8 /\ hist.idle = 1

\* C9: driver protocol: a frame that starts incomplete makes exactly one
\* step and then one render; a frame that starts complete makes no step,
\* renders once more and stops the loop; updateState is never called on a
\* completed state, and once complete the loop is eventually stopped,
\* after one more render.
C9_DriverProtocol ==
  /\ [][/\ ~state.mazeComplete =>
             /\ hist'.calls = hist.calls + 1
             /\ hist'.renders = hist.renders + 1
             /\ commands' = renderState(state')
             /\ looping'
        /\ state.mazeComplete =>
             /\ hist'.calls = hist.calls
             /\ state' = state
             /\ hist'.renders = hist.renders + 1
             /\ ~looping']_vars
  /\ [](hist.idle = 0)
  /\ [](~looping => (state.mazeComplete /\ hist.renders = hist.calls + 1))
  /\ (state.mazeComplete ~> ~looping)

\* C9 witness: the loop was stopped after a run with backtracking
C9_Witness ==
  /\ ~looping
  /\ state.mazeComplete
  /\ ROWS * COLS >= 4
  /\ hist.renders = 2 * ROWS * COLS

\* the shape of the last frame's commands: the grid pass is what precedes
\* the 1 + |stack| highlight fills
gridPassLen == Len(commands) - Len(state.cellStack) - 1

IsGridPass ==
  /\ gridPassLen >= Len(state.grid)
  /\ \A i \in 1..gridPassLen : commands[i].color \in {<<51>>, <<101>>, <<255>>}

IsFillOf(cmd, ref, color) ==
  /\ cmd.op = "rect"
  /\ cmd.color = color
  /\ cmd.a = cellAt(ref).x * CELL_WIDTH
  /\ cmd.b = cellAt(ref).y * CELL_HEIGHT

\* C10 as stated: the grid pass, then one highlight fill per stack cell,
\* then last of all the fill for the active cell.
C10_ActiveFillLast ==
  commands # <<>> =>
    /\ IsGridPass
    /\ \A i \in 1..Len(state.cellStack) :
         IsFillOf(commands[gridPassLen + i], state.cellStack[i], <<150, 0, 150>>)
    /\ IsFillOf(commands[Len(commands)], state.activeCell, <<0, 255, 0>>)

\* C10 as amended: the grid pass, then the fill for the active cell, then
\* one highlight fill per stack cell, in stack order.
C10_ActiveFillBeforeStack ==
  commands # <<>> =>
    /\ IsGridPass
    /\ IsFillOf(commands[gridPassLen + 1], state.activeCell, <<0, 255, 0>>)
    /\ \A i \in 1..Len(state.cellStack) :
         IsFillOf(commands[gridPassLen + 1 + i], state.cellStack[i], <<150, 0, 150>>)

\* C10 witness: a frame was rendered with several cells on the stack
C10_Witness ==
  /\ commands # <<>>
  /\ Len(state.cellStack) >= 2
  /\ hist.pops > 0

\* the wall flags renderCell looks at
WallKeys == {"top", "right", "bottom", "left"}

\* the number of wall flags set on a cell
SetFlags(ref) == Cardinality({k \in WallKeys : cellAt(ref).walls[k]})

\* the number of commands the grid pass owes to the cells before index k
RECURSIVE cellOffset(_)
cellOffset(k) == IF k = 0 THEN 0 ELSE cellOffset(k - 1) + 1 + SetFlags(k - 1)

\* cmds has the counts and the per-cell shape C11 describes for the state
HasCellShape(cmds) ==
  LET n == Len(state.grid)
      gridLen == cellOffset(n)
      tail == {i \in (gridLen + 1)..Len(cmds) : TRUE}
  IN /\ Len(cmds) = ROWS * COLS + (cellOffset(n) - n) + Len(state.cellStack) + 1
     /\ \A k \in 0..(n - 1) :
          /\ cmds[cellOffset(k) + 1].op = "rect"
          /\ cmds[cellOffset(k) + 1].color =
               (IF cellAt(k).processed THEN <<101>> ELSE <<51>>)
          /\ cmds[cellOffset(k) + 1].a = cellAt(k).x * CELL_WIDTH
          /\ cmds[cellOffset(k) + 1].b = cellAt(k).y * CELL_HEIGHT
          /\ \A i \in 1..SetFlags(k) : cmds[cellOffset(k) + 1 + i].op = "line"
     /\ \A i \in tail : cmds[i].op = "rect"
     /\ Cardinality({i \in tail : cmds[i].color = <<150, 0, 150>>}) = Len(state.cellStack)
     /\ Cardinality({i \in tail : cmds[i].color = <<0, 255, 0>>}) = 1

\* C11: render emits, per cell in grid order, one fill and then one line
\* per wall flag set on that cell, then |stack| stack fills and one active
\* fill: rows*cols + (set wall flags) + |stack| + 1 commands in all; for the
\* initial 1x1 state that is 1 fill, 4 lines and 1 active fill, the active
\* fill after the base fill.
C11_RenderCommandCount ==
  /\ commands # <<>> => HasCellShape(commands)
  /\ (ROWS = 1 /\ COLS = 1 /\ hist.calls = 0) =>
       LET r == renderState(state)
       IN /\ Len(r) = 6
          /\ r[1].op = "rect" /\ r[1].color = <<51>>
          /\ \A i \in 2..5 : r[i].op = "line"
          /\ r[6].op = "rect" /\ r[6].color = <<0, 255, 0>>
          /\ HasCellShape(r)

\* C11 witness: a frame rendered with walls removed and cells on the stack
C11_Witness ==
  /\ commands # <<>>
  /\ Len(state.cellStack) >= 2
  /\ ClearedFlags >= 6
  /\ ROWS * COLS >= 6

\* C12: createState(rows, cols) yields exactly rows*cols cells with no
\* duplicate coordinates, the cell at index y*cols + x having coordinates
\* (x, y), all four walls set and visited false; active is the cell (0,0)
\* at index 0, the stack is empty and complete is false.
C12_InitialState ==
  hist.calls = 0 =>
    /\ Len(state.grid) = ROWS * COLS
    /\ \A a, b \in Refs :
         (cellAt(a).x = cellAt(b).x /\ cellAt(a).y = cellAt(b).y) => a = b
    /\ \A x \in 0..(COLS - 1), y \in 0..(ROWS - 1) :
         LET c == at(state.grid, y * COLS + x)
         IN /\ c.x = x /\ c.y = y
            /\ DOMAIN c.walls = WallKeys
            /\ \A k \in WallKeys : c.walls[k]
            /\ ~c.processed
    /\ state.activeCell = 0
    /\ cellAt(state.activeCell).x = 0 /\ cellAt(state.activeCell).y = 0
    /\ state.cellStack = <<>>
    /\ ~state.mazeComplete

\* C12 witness: the state just built for a grid that is not square
C12_Witness ==
  /\ hist.calls = 0
  /\ ROWS = 2 /\ COLS = 3
  /\ Len(state.grid) = 6

\* the step just taken pushed cell c
PushedNow(c) == hist'.pushed[c] > hist.pushed[c]

\* the in-grid 4-neighbours of a cell
NeighboursOf(a) == {b \in Refs : Adjacent(a, b)}

\* C13 as stated: each cell is pushed at most once over a run, in the step
\* in which its visited flag changes from false to true, and a cell that has
\* been popped is never pushed again.
C13_PushedAtMostOnce ==
  /\ [](\A c \in Refs : hist.pushed[c] <= 1)
  /\ [][\A c \in Refs : PushedNow(c) =>
          /\ ~cellAt(c).processed
          /\ at(state'.grid, c).processed
          /\ c \notin hist.popped]_vars

\* C13 as amended: a cell is pushed only while it is the active cell and
\* not on the stack; its first push happens in the step in which its visited
\* flag changes from false to true; any later push is of a visited cell that
\* was popped before, and a cell is pushed at most as often as it has
\* neighbours.
C13_FirstPushMarksVisited ==
  /\ [](\A c \in Refs : hist.pushed[c] <= Cardinality(NeighboursOf(c)))
  /\ [][\A c \in Refs : PushedNow(c) =>
          /\ c = state.activeCell
          /\ c \notin StackSet
          /\ at(state'.grid, c).processed
          /\ hist.pushed[c] = 0 => ~cellAt(c).processed
          /\ hist.pushed[c] > 0 => (cellAt(c).processed /\ c \in hist.popped)]_vars

\* C13 witness: some cell has been popped and then pushed a second time
C13_Witness ==
  \E c \in Refs : hist.pushed[c] >= 2 /\ c \in hist.popped /\ c \in StackSet

\* C14 as stated: before completion a cell is in the stack if and only if
\* it is visited and has not yet been popped; in particular every visited
\* cell was at some point on the stack.
C14_InStackIffVisitedUnpopped ==
  ~state.mazeComplete =>
    /\ \A c \in Refs :
         c \in StackSet <=> (cellAt(c).processed /\ c \notin hist.popped)
    /\ \A c \in Refs : cellAt(c).processed => hist.pushed[c] > 0

\* C14 as amended: before completion a cell is in the stack if and only if
\* it is visited, is not the active cell, and has not yet been left by a
\* backtrack step (a step that found it without unvisited neighbours).
C14_InStackIffVisitedUnfinished ==
  ~state.mazeComplete =>
    \A c \in Refs :
      c \in StackSet <=>
        (cellAt(c).processed /\ c # state.activeCell /\ c \notin hist.left)

\* C14 witness: an incomplete state with cells on the stack, a dead-end cell
\* that was never pushed, and a popped cell that is on the stack again
C14_Witness ==
  /\ ~state.mazeComplete
  /\ \E c \in Refs : cellAt(c).processed /\ hist.pushed[c] = 0 /\ c \in hist.left
  /\ \E c \in StackSet : c \in hist.popped
  /\ Len(state.cellStack) >= 2

\* C15: visited is monotonic: no step changes a cell's visited flag from
\* true back to false.
C15_VisitedMonotonic ==
  [][\A c \in Refs : cellAt(c).processed => at(state'.grid, c).processed]_vars

\* C15 witness: a cell that was already visited (it had been pushed and
\* popped) was marked visited again by a backtrack step
C15_Witness ==
  \E c \in hist.left : c \in hist.popped /\ cellAt(c).processed

\* the in-bounds unvisited 4-neighbours of the active cell
Candidates == {b \in NeighboursOf(state.activeCell) : ~cellAt(b).processed}

\* the step just taken was a call of updateState
Stepped == hist'.calls > hist.calls

\* the step just taken was an advance: the stack grew
Advanced == Stepped /\ Len(state'.cellStack) > Len(state.cellStack)

\* C16: in every advance step the chosen cell is inside the grid, is
\* 4-adjacent to the active cell and is unvisited; every in-bounds unvisited
\* 4-neighbour of the active cell is a possible pick; and a step that does
\* not advance is taken only when no such neighbour exists.
C16_NeighbourPick ==
  /\ [][Stepped =>
          IF Advanced
            THEN LET n == state'.activeCell
                 IN /\ n \in Refs
                    /\ cellAt(n).x \in 0..(COLS - 1)
                    /\ cellAt(n).y \in 0..(ROWS - 1)
                    /\ Adjacent(state.activeCell, n)
                    /\ ~cellAt(n).processed
            ELSE Candidates = {}]_vars
  /\ [](\A b \in Candidates :
          \E u \in Draws(state) : updateState(state, u).activeCell = b)

\* C16 witness: an advance was made from a cell that had three candidates
C16_Witness ==
  /\ ROWS = 3 /\ COLS = 3
  /\ Len(state.cellStack) >= 2
  /\ state.cellStack[Len(state.cellStack)] = 4
  /\ ~cellAt(state.activeCell).processed
  /\ Cardinality({b \in NeighboursOf(4) : ~cellAt(b).processed}) = 3

\* C17: when the active cell has an unvisited in-bounds neighbour, one step
\* marks the old active cell visited, appends exactly that cell to the top
\* of the stack, makes the chosen neighbour active while it is still
\* unvisited, leaves complete false, and changes the visited flag and wall
\* flags of no cell other than the old active cell and the chosen neighbour.
C17_AdvanceEffect ==
  [][(Stepped /\ Candidates # {}) =>
       LET a == state.activeCell
           n == state'.activeCell
       IN /\ at(state'.grid, a).processed
          /\ state'.cellStack = Append(state.cellStack, a)
          /\ n \in Candidates
          /\ ~at(state'.grid, n).processed
          /\ ~state'.mazeComplete
          /\ \A c \in Refs \ {a, n} :
               /\ at(state'.grid, c).processed = cellAt(c).processed
               /\ at(state'.grid, c).walls = cellAt(c).walls]_vars

\* C17 witness: several advances were made, the last into an unvisited cell
C17_Witness ==
  /\ Len(state.cellStack) >= 3
  /\ ~cellAt(state.activeCell).processed
  /\ hist.pops > 0

\* C18: for every grid size and every sequence of picks, complete first
\* becomes true on exactly call number 2*rows*cols - 1 of updateState:
\* rows*cols - 1 advances, rows*cols - 1 backtrack pops and one final step.
C18_ExactRunLength ==
  /\ [][(~state.mazeComplete /\ state'.mazeComplete) =>
          /\ hist'.calls = 2 * ROWS * COLS - 1
          /\ hist'.pushes = ROWS * COLS - 1
          /\ hist'.pops = ROWS * COLS - 1]_vars
  /\ [](state.mazeComplete <=> hist.calls >= 2 * ROWS * COLS - 1)

\* C18 witness: the 3x3 run has just completed, on its 17th call
C18_Witness ==
  /\ ROWS = 3 /\ COLS = 3
  /\ state.mazeComplete
  /\ hist.calls = 17 /\ hist.idle = 0

\* C19: every cell in the stack is visited; consecutive stack entries are
\* 4-adjacent and the earlier entry's wall towards the later one is cleared;
\* a non-empty stack has its top entry 4-adjacent to the active cell and
\* the cell (0,0) as its bottom entry.
C19_StackIsPath ==
  LET s == state.cellStack
  IN /\ \A i \in 1..Len(s) : cellAt(s[i]).processed
     /\ \A i \in 1..(Len(s) - 1) :
          Adjacent(s[i], s[i + 1]) /\ Cleared(s[i], s[i + 1])
     /\ Len(s) > 0 =>
          /\ Adjacent(s[Len(s)], state.activeCell)
          /\ cellAt(s[1]).x = 0 /\ cellAt(s[1]).y = 0

\* C19 witness: the stack holds an entry that advanced upwards (dy = -1)
\* into the entry after it, after at least one backtrack
C19_Witness ==
  /\ hist.pops > 0
  /\ \E i \in 1..(Len(state.cellStack) - 1) :
       cellAt(state.cellStack[i + 1]).y = cellAt(state.cellStack[i]).y - 1

\* C20: no step sets a cleared wall flag again, and every wall flag facing
\* outside the grid (top of row 0, bottom of the last row, left of column
\* 0, right of the last column) is set in every reachable state.
C20_WallsOnlyRemoved ==
  /\ [][\A c \in Refs : \A k \in DOMAIN cellAt(c).walls :
          ~cellAt(c).walls[k] =>
            (k \in DOMAIN at(state'.grid, c).walls /\ ~at(state'.grid, c).walls[k])]_vars
  /\ [](\A c \in Refs :
          /\ cellAt(c).y = 0 => cellAt(c).walls["top"]
          /\ cellAt(c).y = ROWS - 1 => cellAt(c).walls["bottom"]
          /\ cellAt(c).x = 0 => cellAt(c).walls["left"]
          /\ cellAt(c).x = COLS - 1 => cellAt(c).walls["right"])

\* C20 witness: a 3x3 maze was completed, with walls removed in every
\* direction of travel
C20_Witness ==
  /\ ROWS = 3 /\ COLS = 3
  /\ state.mazeComplete
  /\ \E c \in Refs : "bototm" \in DOMAIN cellAt(c).walls
  /\ \E c \in Refs : ~cellAt(c).walls["right"]
  /\ \E c \in Refs : ~cellAt(c).walls["left"] /\ ~cellAt(c).walls["bottom"]

====
